---- MODULE Spec2Model ----
(***************************************************************************)
(* Playback Session of the t3rm1n4l music player (src/src/player/player.py) *)
(* as a state machine.  The AudioPlayer object is the record `self`; the    *)
(* pygame mixer is the record `music`; the main thread and the position     *)
(* tracking threads are the entries of `th`, each with its own program      *)
(* counter, call stack and locals.  Every statement of a method that reads   *)
(* or writes shared state is one step, so that the main thread and the      *)
(* background loop interleave between statements.                           *)
(*                                                                         *)
(* Time is counted in ticks of 0.2 s (the loop's sleep interval): position  *)
(* and duration are numbers of ticks.                                       *)
(***************************************************************************)
EXTENDS Integers, Sequences, FiniteSets, TLC

(* ------------------------------ bounds -------------------------------- *)
\* number of Thread objects that can be alive at once in the model
MaxThreads == 2
\* depth at which the interpreter raises RecursionError
RecursionLimit == 3
\* the longest file name, in pieces
MaxPieces == 5

(* ---------------------------- environment ----------------------------- *)
None == "None"
True == "True"
False == "False"

Main == 0
\* self.player_thread before the first thread is created
NoThread == -1
Loops == 1..MaxThreads
Threads == {Main} \cup Loops

\* the paths the callers pass in: "a", "b" and "z" are sound files of 1 s, 4 s
\* and 0 s, "k" exists but the mixer cannot decode it, "m" does not exist, "t"
\* is a text file
Files == {"a", "b", "z", "k", "m", "t"}
\* the extension of each file's name, as it is written
Ext == [f \in Files |-> IF f = "a" THEN "MP3" ELSE IF f = "z" THEN "Flac"
                        ELSE IF f = "t" THEN "txt" ELSE "mp3"]
\* audio.info.length in whole seconds
Length == [f \in Files |-> IF f = "a" THEN 1 ELSE IF f = "b" THEN 4 ELSE 0]
\* what is on the disk: the files that exist, those the mixer decodes, those
\* mutagen reads
\* a mapping with no key
EmptyMap == [k \in {} |-> None]
\* a file that does not exist
NoFile == [exists |-> FALSE, ok |-> FALSE, tracks |-> {}]
\* the ID3 title of every sound file, until someone edits the tags
Tags == [f \in Files |-> "T1"]
\* the music directory: missing, or holding files
NoDir == [exists |-> FALSE, files |-> {}]
EmptyDir == [exists |-> TRUE, files |-> {}]
\* data/library.json and data/playlists/*.json do not exist until saved; the
\* music directory exists once a LibraryManager has been constructed
Disk(ex, dec) == [existing |-> ex, decodable |-> dec, readable |-> ex,
                  tags |-> Tags, library_file |-> NoFile, playlists_dir |-> EmptyMap,
                  music_dir |-> EmptyDir]
DiskSound == Disk({"a", "z"}, {"a", "z"})
DiskCorrupt == Disk({"a", "k"}, {"a"})
DiskLong == Disk({"b", "z"}, {"b", "z"})
\* music directories: with a sound file that is no mp3, with an mp3, with an mp3
\* and a file the mixer cannot decode, with that file alone
DiskMusic(S) == [Disk({"a", "z", "k"}, {"a", "z"}) EXCEPT !.music_dir.files = S]
MusicInputs == {{}, {"z"}, {"a"}, {"a", "k"}, {"k"}}
\* a root that has not been created yet
DiskUnmade == [Disk({"a", "z", "t"}, {"a", "z"}) EXCEPT !.music_dir = NoDir]
\* a Track as library.json holds it
StoredTrack(p) == [path |-> p, title |-> "T1", artist |-> "Unknown Artist",
                   album |-> "Unknown Album", duration |-> Length[p]]
\* data directories that were edited by hand: a playlist that holds a path
\* twice, one that holds a path the library does not have, a playlist file
\* that is not JSON; and a library.json that is not JSON
DiskEdited ==
    [DiskSound EXCEPT
        !.library_file = [exists |-> TRUE, ok |-> TRUE,
                          tracks |-> {StoredTrack("a"), StoredTrack("z")}],
        !.playlists_dir = [f \in {"x", "y", "bad"} |->
            IF f = "x" THEN [ok |-> TRUE, name |-> "x", tracks |-> <<"a", "z", "a">>]
            ELSE IF f = "y" THEN [ok |-> TRUE, name |-> "y", tracks |-> <<"m", "z">>]
            ELSE [ok |-> FALSE, name |-> None, tracks |-> <<>>]]]
DiskBroken ==
    [DiskSound EXCEPT
        !.library_file = [exists |-> TRUE, ok |-> FALSE, tracks |-> {}],
        !.playlists_dir = [f \in {"x"} |->
            [ok |-> TRUE, name |-> "x", tracks |-> <<"a">>]]]

\* the caller's arguments
PlaylistInputs == {<<>>, <<"a", "z">>, <<"m">>, <<"z", "m", "a">>}
SeekInputs == {-50, 2, 600}
\* the Library Store's callers: playlist names, batches of paths to add, lists of
\* paths to put in a playlist, single paths to remove
Names == {"x", "y"}
AddInputs == {<<"a">>, <<"z", "m", "a">>}
AppendInputs == {<<"a", "z">>, <<"z", "z", "m", "a">>}
LibPaths == {"a", "z", "m"}
\* volumes are counted in tenths
VolumeInputs == {-3, 4, 15}

(* ------------------------- program constants -------------------------- *)
TicksPerSecond == 5
DefaultDuration == 180
RestartThreshold == 3
\* the upper end of the volume range, 1.0, in tenths
MaxVolume == 10
MUTAGEN_AVAILABLE == TRUE

VARIABLES
    self,           \* the AudioPlayer object's fields
    music,          \* pygame.mixer.music: what is loaded and whether it sounds
    th,             \* per thread: pc, call stack, locals
    op,             \* history: the operation the main thread is in
    pre,            \* history: the session when that operation was called
    dirty,          \* history: another thread stepped during that operation
    adv,            \* history: the session when the loop detected the end of track
    advdirty,       \* history: the main thread stepped during the auto-advance
    disk,           \* the file system, as os.path.exists, mutagen and the mixer see it
    lib             \* the LibraryManager object's tracks and playlists

vars == <<self, music, th, op, pre, dirty, adv, advdirty, disk, lib>>

(* ------------------------------ helpers ------------------------------- *)
\* ref names the store playlist whose list object arg is, when it is one
IdleTh == [pc |-> "idle", stack |-> <<>>, arg |-> None, ret |-> None,
           depth |-> 0, wp |-> FALSE, ref |-> None]
DeadTh == [IdleTh EXCEPT !.pc = "dead"]

is_alive(l) == th[l].pc # "dead"
Alive == {l \in Loops : is_alive(l)}
FreeSlots == {l \in Loops : ~is_alive(l)}
MinOf(S) == CHOOSE x \in S : \A y \in S : x <= y

\* the app is still running: an exception that reaches TerminalApp.run ends it
Running == th[Main].pc # "raised"

At(t, l) == [th[t] EXCEPT !.pc = l]
CallTo(t, l, back) == [th[t] EXCEPT !.pc = l, !.stack = <<back>> \o th[t].stack]
Ret(t, v) == [th[t] EXCEPT !.pc = Head(th[t].stack),
                           !.stack = Tail(th[t].stack), !.ret = v]
\* an uncaught exception: the main thread leaves the app, a loop thread dies
Raise(t, e) == IF t = Main THEN [IdleTh EXCEPT !.pc = "raised", !.ret = e]
               ELSE [DeadTh EXCEPT !.ret = e]

Session == [current_track |-> self.current_track, is_playing |-> self.is_playing,
            position |-> self.position, duration |-> self.duration,
            playlist |-> self.playlist,
            current_playlist_index |-> self.current_playlist_index,
            volume |-> self.volume, stop_event |-> self.stop_event,
            player_thread |-> self.player_thread, music |-> music, alive |-> Alive]

\* the session as AudioPlayer.__init__ leaves it; also the value of `pre` while
\* the main thread is in no operation
NoSnap == [current_track |-> None, is_playing |-> FALSE, position |-> 0,
           duration |-> 0, playlist |-> <<>>, current_playlist_index |-> -1,
           volume |-> 7, stop_event |-> FALSE, player_thread |-> NoThread,
           music |-> [loaded |-> None, state |-> "stopped", start |-> 0,
                      volume |-> 7],
           alive |-> {}]
NoOp == [name |-> "none", arg |-> None]
NoAdv == [active |-> FALSE, idx |-> -1, playlist |-> <<>>]

\* Python list indexing: a negative index counts from the end
InRange(s, i) == -Len(s) <= i /\ i < Len(s)
PyIndex(s, i) == IF i >= 0 THEN s[i + 1] ELSE s[Len(s) + i + 1]

(* --------------------------- history updates -------------------------- *)
MainBusy == th[Main].pc # "idle"
\* a snapshot is kept only while the operation it belongs to has run alone
Interfered == [active |-> TRUE, idx |-> -1, playlist |-> <<>>]
MainTouchesAdv == /\ advdirty' = (advdirty \/ adv.active)
                  /\ adv' = IF adv.active THEN Interfered ELSE adv
LoopTouchesPre == /\ dirty' = (dirty \/ MainBusy)
                  /\ pre' = IF MainBusy THEN NoSnap ELSE pre
MainGhost == /\ UNCHANGED <<op, pre, dirty, disk, lib>>
             /\ MainTouchesAdv
LoopGhost == /\ UNCHANGED <<op, adv, advdirty, disk, lib>>
             /\ LoopTouchesPre
Ghost(t) == IF t = Main THEN MainGhost ELSE LoopGhost

(* ------------------------- the mixer (pygame) ------------------------- *)
\* (a stop that leaves the stream as it is)
MixerStop_Ignored == music
\* pygame.mixer.music.stop()
MixerStop == [music EXCEPT !.state = "stopped", !.start = 0]
\* pygame.mixer.music.play(start=s)
MixerPlay(s) == [music EXCEPT !.state = "playing", !.start = s]
\* (a pause that halts the stream and forgets its offset)
MixerPause_Halt == [music EXCEPT !.state = "stopped", !.start = 0]
\* pygame.mixer.music.pause(): only a sounding stream is paused
MixerPause == IF music.state = "playing" THEN [music EXCEPT !.state = "paused"]
              ELSE music
\* pygame.mixer.music.get_busy(): false when idle, true when sounding; when
\* paused pygame 1 answers true and pygame 2 answers false
BusyValues == IF music.state = "playing" THEN {TRUE}
              ELSE IF music.state = "paused" THEN {TRUE, FALSE} ELSE {FALSE}

\* the stream reaches the end of the file on its own
MusicEnds ==
    /\ Running
    /\ music.state = "playing"
    /\ music' = [music EXCEPT !.state = "stopped", !.start = 0]
    /\ LoopTouchesPre
    /\ UNCHANGED <<self, th, op, adv, advdirty, disk, lib>>

(* ----------------------------- stop, load ----------------------------- *)
stop(t) ==
    /\ Running
    /\ \/ /\ th[t].pc = "stop"
          /\ self' = [self EXCEPT !.stop_event = TRUE]
          /\ th' = [th EXCEPT ![t] = At(t, "stop_mixer")]
          /\ UNCHANGED music
       \/ /\ th[t].pc = "stop_mixer"
          /\ music' = IF self.pygame_available THEN MixerStop ELSE music
          /\ th' = [th EXCEPT ![t] = At(t, "stop_flag")]
          /\ UNCHANGED self
       \/ /\ th[t].pc = "stop_flag"
          /\ self' = [self EXCEPT !.is_playing = FALSE]
          /\ th' = [th EXCEPT ![t] = At(t, "stop_pos")]
          /\ UNCHANGED music
       \/ /\ th[t].pc = "stop_pos"
          /\ self' = [self EXCEPT !.position = 0]
          /\ th' = [th EXCEPT ![t] = Ret(t, None)]
          /\ UNCHANGED music
    /\ Ghost(t)

\* os.path.exists(track_path)
PathExists(p) == p \in disk.existing
\* (a load that stops the playback before it looks for the file)
LoadEntry_StopFirst(t) == CallTo(t, "stop", "load_track")
\* where load goes after its existence check
LoadEntry(t) == IF PathExists(th[t].arg) THEN CallTo(t, "stop", "load_track")
                ELSE [Ret(t, False) EXCEPT !.arg = None]
\* the duration load stores, in seconds
TrackDuration(p) == IF self.mutagen_available /\ p \in disk.readable
                    THEN Length[p] ELSE DefaultDuration
\* pygame.mixer.music.load(track_path) succeeds
MixerLoads(p) == p \in disk.decodable

load(t) ==
    /\ Running
    /\ \/ /\ th[t].pc = "load"
          /\ th' = [th EXCEPT ![t] = LoadEntry(t)]
          /\ UNCHANGED <<self, music>>
       \/ /\ th[t].pc = "load_track"
          /\ self' = [self EXCEPT !.current_track = th[t].arg]
          /\ th' = [th EXCEPT ![t] = At(t, "load_duration")]
          /\ UNCHANGED music
       \/ /\ th[t].pc = "load_duration"
          /\ self' = [self EXCEPT !.duration = TrackDuration(th[t].arg) * TicksPerSecond]
          /\ th' = [th EXCEPT ![t] = At(t, "load_mixer")]
          /\ UNCHANGED music
       \/ /\ th[t].pc = "load_mixer"
          /\ IF self.pygame_available /\ ~MixerLoads(th[t].arg)
             THEN /\ music' = [music EXCEPT !.loaded = None, !.state = "stopped",
                                                !.start = 0]
                  /\ th' = [th EXCEPT ![t] = [Ret(t, False) EXCEPT !.arg = None]]
             ELSE /\ music' = IF self.pygame_available
                              THEN [music EXCEPT !.loaded = th[t].arg,
                                                 !.state = "stopped", !.start = 0]
                              ELSE music
                  /\ th' = [th EXCEPT ![t] = At(t, "load_position")]
          /\ UNCHANGED self
       \/ /\ th[t].pc = "load_position"
          /\ self' = [self EXCEPT !.position = 0]
          /\ th' = [th EXCEPT ![t] = [Ret(t, True) EXCEPT !.arg = None]]
          /\ UNCHANGED music
    /\ Ghost(t)

(* -------------------------------- play -------------------------------- *)
\* (a play that starts a thread on every call)
NeedsNewThread_Always == TRUE
\* the test that guards the creation of a position tracking thread
NeedsNewThread == self.player_thread = NoThread \/ ~is_alive(self.player_thread)
\* (a play that restarts at the offset of the previous start)
PlayStart_Stale == music.start
\* the offset handed to the mixer
PlayStart == self.position

play(t) ==
    /\ Running
    /\ \/ /\ th[t].pc = "play"
          /\ th' = [th EXCEPT ![t] =
                      IF self.current_track = None THEN Ret(t, False)
                      ELSE IF self.is_playing THEN Ret(t, True)
                      ELSE At(t, "play_mixer")]
          /\ UNCHANGED <<self, music>>
       \/ /\ th[t].pc = "play_mixer"
          /\ IF self.pygame_available /\ music.loaded = None
             THEN \* pygame.error, caught by the except clause
                  /\ th' = [th EXCEPT ![t] = Ret(t, False)]
                  /\ UNCHANGED music
             ELSE /\ music' = IF self.pygame_available THEN MixerPlay(PlayStart) ELSE music
                  /\ th' = [th EXCEPT ![t] = At(t, "play_flag")]
          /\ UNCHANGED self
       \/ /\ th[t].pc = "play_flag"
          /\ self' = [self EXCEPT !.is_playing = TRUE]
          /\ th' = [th EXCEPT ![t] = At(t, "play_thread")]
          /\ UNCHANGED music
       \/ /\ th[t].pc = "play_thread"
          /\ th' = [th EXCEPT ![t] = IF NeedsNewThread THEN At(t, "play_clear")
                                     ELSE Ret(t, True)]
          /\ UNCHANGED <<self, music>>
       \/ /\ th[t].pc = "play_clear"
          /\ self' = [self EXCEPT !.stop_event = FALSE]
          /\ th' = [th EXCEPT ![t] = At(t, "play_start")]
          /\ UNCHANGED music
       \/ /\ th[t].pc = "play_start"
          /\ FreeSlots # {}
          /\ LET l == MinOf(FreeSlots) IN
               /\ self' = [self EXCEPT !.player_thread = l]
               /\ th' = [th EXCEPT ![t] = Ret(t, True),
                                   ![l] = [DeadTh EXCEPT !.pc = "loop_test"]]
          /\ UNCHANGED music
    /\ Ghost(t)

(* --------------------- the position tracking thread ------------------- *)
\* the while condition
LoopContinues == ~self.stop_event /\ self.is_playing
\* the end-of-track test
\* (an end test that needs one more wake-up)
TrackEnded_Late == self.position > self.duration
\* `if self.position >= self.duration`
TrackEnded == self.position >= self.duration
EndDetected == [active |-> TRUE, idx |-> self.current_playlist_index,
                playlist |-> self.playlist]

playback_thread(l) ==
    /\ Running
    /\ l \in Loops
    /\ \/ /\ th[l].pc = "loop_test"
          /\ th' = [th EXCEPT ![l] = IF LoopContinues THEN At(l, "loop_busy") ELSE DeadTh]
          /\ UNCHANGED <<self, music, adv, advdirty>>
       \/ /\ th[l].pc = "loop_busy"
          /\ \E b \in BusyValues :
               th' = [th EXCEPT ![l] = IF self.pygame_available /\ b
                                       THEN At(l, "loop_tick") ELSE At(l, "loop_idle")]
          /\ UNCHANGED <<self, music, adv, advdirty>>
       \/ /\ th[l].pc = "loop_tick"
          /\ self' = [self EXCEPT !.position = self.position + 1]
          /\ th' = [th EXCEPT ![l] = At(l, "loop_check")]
          /\ UNCHANGED <<music, adv, advdirty>>
       \/ /\ th[l].pc = "loop_check"
          /\ IF TrackEnded
             THEN /\ th' = [th EXCEPT ![l] = At(l, "loop_end_position")]
                  /\ adv' = EndDetected
                  /\ advdirty' = FALSE
             ELSE /\ th' = [th EXCEPT ![l] = At(l, "loop_test")]
                  /\ UNCHANGED <<adv, advdirty>>
          /\ UNCHANGED <<self, music>>
       \/ /\ th[l].pc = "loop_idle"
          /\ IF self.pygame_available /\ self.is_playing
             THEN /\ th' = [th EXCEPT ![l] = At(l, "loop_end_position")]
                  /\ adv' = EndDetected
                  /\ advdirty' = FALSE
             ELSE /\ th' = [th EXCEPT ![l] = At(l, "loop_tick")]
                  /\ UNCHANGED <<adv, advdirty>>
          /\ UNCHANGED <<self, music>>
       \/ /\ th[l].pc = "loop_end_position"
          /\ self' = [self EXCEPT !.position = 0]
          /\ th' = [th EXCEPT ![l] = At(l, "loop_end_flag")]
          /\ UNCHANGED <<music, adv, advdirty>>
       \/ /\ th[l].pc = "loop_end_flag"
          /\ self' = [self EXCEPT !.is_playing = FALSE]
          /\ th' = [th EXCEPT ![l] = [CallTo(l, "next", "loop_after") EXCEPT !.depth = 1]]
          /\ UNCHANGED <<music, adv, advdirty>>
       \/ /\ th[l].pc = "loop_after"
          /\ th' = [th EXCEPT ![l] = [DeadTh EXCEPT !.pc = "loop_test"]]
          /\ adv' = NoAdv
          /\ advdirty' = FALSE
          /\ UNCHANGED <<self, music>>
    /\ LoopTouchesPre
    /\ UNCHANGED <<op, disk, lib>>

(* ------------------------- pause, seek, playlist ---------------------- *)
pause(t) ==
    /\ Running
    /\ \/ /\ th[t].pc = "pause"
          /\ th' = [th EXCEPT ![t] = IF self.is_playing THEN At(t, "pause_mixer")
                                     ELSE Ret(t, False)]
          /\ UNCHANGED <<self, music>>
       \/ /\ th[t].pc = "pause_mixer"
          /\ music' = IF self.pygame_available THEN MixerPause ELSE music
          /\ th' = [th EXCEPT ![t] = At(t, "pause_flag")]
          /\ UNCHANGED self
       \/ /\ th[t].pc = "pause_flag"
          /\ self' = [self EXCEPT !.is_playing = FALSE]
          /\ th' = [th EXCEPT ![t] = Ret(t, True)]
          /\ UNCHANGED music
    /\ Ghost(t)

\* (a seek that clamps at the lower end only)
Clamp_Below(p, d) == IF p < 0 THEN 0 ELSE p
\* the position seek stores for the request p on a track of duration d
Clamp(p, d) == IF p < 0 THEN 0 ELSE IF p > d THEN d ELSE p

seek(t) ==
    /\ Running
    /\ \/ /\ th[t].pc = "seek"
          /\ th' = [th EXCEPT ![t] = [At(t, "seek_stop") EXCEPT
                                        !.arg = Clamp(th[t].arg, self.duration),
                                        !.wp = self.is_playing]]
          /\ UNCHANGED <<self, music>>
       \/ /\ th[t].pc = "seek_stop"
          /\ music' = IF th[t].wp /\ self.pygame_available THEN MixerStop ELSE music
          /\ th' = [th EXCEPT ![t] = At(t, "seek_position")]
          /\ UNCHANGED self
       \/ /\ th[t].pc = "seek_position"
          /\ self' = [self EXCEPT !.position = th[t].arg]
          /\ th' = [th EXCEPT ![t] = At(t, "seek_play")]
          /\ UNCHANGED music
       \/ /\ th[t].pc = "seek_play"
          /\ IF th[t].wp /\ self.pygame_available
             THEN IF music.loaded = None
                  THEN /\ th' = [th EXCEPT ![t] = Raise(t, "pygame.error")]
                       /\ UNCHANGED music
                  ELSE /\ music' = MixerPlay(th[t].arg)
                       /\ th' = [th EXCEPT ![t] = Ret(t, None)]
             ELSE /\ th' = [th EXCEPT ![t] = Ret(t, None)]
                  /\ UNCHANGED music
          /\ UNCHANGED self
    /\ Ghost(t)

\* (a set_volume that clamps at the lower end only)
ClampVolume_Below(v) == IF v < 0 THEN 0 ELSE v
\* the volume set_volume keeps for the request v
ClampVolume(v) == IF v < 0 THEN 0 ELSE IF v > MaxVolume THEN MaxVolume ELSE v

set_volume(t) ==
    /\ Running
    /\ \/ /\ th[t].pc = "set_volume"
          /\ th' = [th EXCEPT ![t] = [At(t, "set_volume_store") EXCEPT
                                        !.arg = ClampVolume(th[t].arg)]]
          /\ UNCHANGED <<self, music>>
       \/ /\ th[t].pc = "set_volume_store"
          /\ self' = [self EXCEPT !.volume = th[t].arg]
          /\ th' = [th EXCEPT ![t] = At(t, "set_volume_mixer")]
          /\ UNCHANGED music
       \/ /\ th[t].pc = "set_volume_mixer"
          /\ music' = IF self.pygame_available
                      THEN [music EXCEPT !.volume = th[t].arg] ELSE music
          /\ th' = [th EXCEPT ![t] = Ret(t, None)]
          /\ UNCHANGED self
    /\ Ghost(t)

\* (a set_playlist that takes every list)
PlaylistRefused_Never(tracks) == FALSE
\* `if not tracks`
PlaylistRefused(tracks) == tracks = <<>>

set_playlist(t) ==
    /\ Running
    /\ \/ /\ th[t].pc = "set_playlist"
          /\ IF PlaylistRefused(th[t].arg)
             THEN /\ th' = [th EXCEPT ![t] = Ret(t, False)]
                  /\ UNCHANGED self
             ELSE /\ self' = [self EXCEPT !.playlist = th[t].arg,
                                          !.playlist_ref = th[t].ref]
                  /\ th' = [th EXCEPT ![t] = At(t, "set_playlist_index")]
       \/ /\ th[t].pc = "set_playlist_index"
          /\ self' = [self EXCEPT !.current_playlist_index = -1]
          /\ th' = [th EXCEPT ![t] = Ret(t, True)]
    /\ UNCHANGED music
    /\ Ghost(t)

(* --------------------------- next, previous --------------------------- *)
\* (a next that stays on the last entry instead of wrapping)
NextIndex_NoWrap(i, n) == IF i < n - 1 THEN i + 1 ELSE n - 1
NextIndex(i, n) == IF i < n - 1 THEN i + 1 ELSE 0
\* (a previous that stays on the first entry instead of wrapping)
PrevIndex_NoWrap(i, n) == IF i > 0 THEN i - 1 ELSE 0
PrevIndex(i, n) == IF i > 0 THEN i - 1 ELSE n - 1
\* `return self.next_track()`: one more frame, or RecursionError at the limit
Recurse(t, entry) == IF th[t].depth >= RecursionLimit THEN Raise(t, "RecursionError")
                     ELSE [At(t, entry) EXCEPT !.depth = th[t].depth + 1]
\* the statement track_path = self.playlist[self.current_playlist_index]
FetchTrack(t, back) ==
    IF InRange(self.playlist, self.current_playlist_index)
    THEN [CallTo(t, "load", back) EXCEPT
            !.arg = PyIndex(self.playlist, self.current_playlist_index)]
    ELSE Raise(t, "IndexError")

next_track(t) ==
    /\ Running
    /\ \/ /\ th[t].pc = "next"
          /\ th' = [th EXCEPT ![t] = IF self.playlist = <<>>
                                     THEN [Ret(t, False) EXCEPT !.depth = 0]
                                     ELSE At(t, "next_index")]
          /\ UNCHANGED self
       \/ /\ th[t].pc = "next_index"
          /\ self' = [self EXCEPT !.current_playlist_index =
                         NextIndex(self.current_playlist_index, Len(self.playlist))]
          /\ th' = [th EXCEPT ![t] = At(t, "next_fetch")]
       \/ /\ th[t].pc = "next_fetch"
          /\ th' = [th EXCEPT ![t] = FetchTrack(t, "next_loaded")]
          /\ UNCHANGED self
       \/ /\ th[t].pc = "next_loaded"
          /\ th' = [th EXCEPT ![t] = IF th[t].ret = True
                                     THEN CallTo(t, "play", "next_return")
                                     ELSE Recurse(t, "next")]
          /\ UNCHANGED self
       \/ /\ th[t].pc = "next_return"
          /\ th' = [th EXCEPT ![t] = [Ret(t, True) EXCEPT !.depth = 0]]
          /\ UNCHANGED self
    /\ UNCHANGED music
    /\ Ghost(t)

previous_track(t) ==
    /\ Running
    /\ \/ /\ th[t].pc = "previous"
          /\ th' = [th EXCEPT ![t] = IF self.playlist = <<>>
                                     THEN [Ret(t, False) EXCEPT !.depth = 0]
                                     ELSE At(t, "previous_index")]
          /\ UNCHANGED self
       \/ /\ th[t].pc = "previous_index"
          /\ self' = IF self.position < RestartThreshold * TicksPerSecond
                     THEN [self EXCEPT !.current_playlist_index =
                             PrevIndex(self.current_playlist_index, Len(self.playlist))]
                     ELSE self
          /\ th' = [th EXCEPT ![t] = At(t, "previous_fetch")]
       \/ /\ th[t].pc = "previous_fetch"
          /\ th' = [th EXCEPT ![t] = FetchTrack(t, "previous_loaded")]
          /\ UNCHANGED self
       \/ /\ th[t].pc = "previous_loaded"
          /\ th' = [th EXCEPT ![t] = IF th[t].ret = True
                                     THEN CallTo(t, "play", "previous_return")
                                     ELSE Recurse(t, "previous")]
          /\ UNCHANGED self
       \/ /\ th[t].pc = "previous_return"
          /\ th' = [th EXCEPT ![t] = [Ret(t, True) EXCEPT !.depth = 0]]
          /\ UNCHANGED self
    /\ UNCHANGED music
    /\ Ghost(t)

(* --------------------------- the space bar ---------------------------- *)
\* file.lower().endswith('.mp3')
IsMp3(f) == IF Ext[f] = "MP3" THEN TRUE ELSE Ext[f] = "mp3"
\* all_tracks after the walk over the music directory, in the order os.walk
\* lists the files
AllTracks == {q \in [1..Cardinality({f \in disk.music_dir.files : IsMp3(f)}) ->
                        {f \in disk.music_dir.files : IsMp3(f)}] :
                \A x \in {f \in disk.music_dir.files : IsMp3(f)} :
                    \E i \in DOMAIN q : q[i] = x}
load_from_directory(t) ==
    /\ \/ /\ Running
          /\ th[t].pc = "load_from_directory"
          /\ IF ~disk.music_dir.exists
             THEN th' = [th EXCEPT ![t] = Ret(t, None)]
             ELSE \E all_tracks \in AllTracks :
                    th' = [th EXCEPT ![t] =
                             IF all_tracks = <<>> THEN Ret(t, None)
                             ELSE [CallTo(t, "set_playlist", "load_from_directory_next")
                                      EXCEPT !.arg = all_tracks, !.ref = None]]
       \/ /\ Running
          /\ th[t].pc = "load_from_directory_next"
          /\ th' = [th EXCEPT ![t] =
                      [CallTo(t, "next", "load_from_directory_return") EXCEPT !.depth = 1]]
       \/ /\ Running
          /\ th[t].pc = "load_from_directory_return"
          /\ th' = [th EXCEPT ![t] = Ret(t, None)]
       \/ \* except Exception: the call returns to toggle_play_pause
          /\ t = Main
          /\ th[t].pc = "raised"
          /\ op.name = "toggle_play_pause"
          /\ th' = [th EXCEPT ![t] = [IdleTh EXCEPT !.pc = "toggle_test",
                                                    !.stack = <<"done">>]]
    /\ UNCHANGED <<self, music>>
    /\ Ghost(t)

toggle_play_pause(t) ==
    /\ Running
    /\ \/ /\ th[t].pc = "toggle"
          /\ th' = [th EXCEPT ![t] = IF self.current_track = None
                                     THEN CallTo(t, "load_from_directory", "toggle_test")
                                     ELSE At(t, "toggle_test")]
       \/ /\ th[t].pc = "toggle_test"
          /\ th' = [th EXCEPT ![t] = IF self.is_playing
                                     THEN CallTo(t, "pause", "toggle_return")
                                     ELSE CallTo(t, "play", "toggle_return")]
       \/ /\ th[t].pc = "toggle_return"
          /\ th' = [th EXCEPT ![t] = Ret(t, IF self.is_playing THEN True ELSE False)]
    /\ UNCHANGED <<self, music>>
    /\ Ghost(t)

(* ------------------------- the filename fallback ---------------------- *)
\* a file name is the sequence of its characters; the names the callers pass
\* are made of at most MaxPieces of these pieces
Pieces == {<<"0">>, <<"a">>, <<" ">>, <<"-">>, <<".">>, <<" ", "-", " ">>}
RECURSIVE Joined(_)
Joined(ps) == IF ps = <<>> THEN <<>> ELSE Head(ps) \o Joined(Tail(ps))
Filenames == {Joined(ps) : ps \in UNION {[1..n -> Pieces] : n \in 0..MaxPieces}}
\* os.path.splitext(filename)[0]: the name up to its last dot, when a character
\* other than a dot comes before that dot
LastDot(f) == CHOOSE i \in 1..Len(f) : f[i] = "." /\ \A j \in (i + 1)..Len(f) : f[j] # "."
splitext(f) ==
    IF (\E i \in 1..Len(f) : f[i] = ".") /\ (\E j \in 1..(LastDot(f) - 1) : f[j] # ".")
    THEN SubSeq(f, 1, LastDot(f) - 1)
    ELSE f
\* ' - ' in name, and name.split(' - ', 1)
SepAt(n, i) == i + 2 <= Len(n) /\ n[i] = " " /\ n[i + 1] = "-" /\ n[i + 2] = " "
HasSep(n) == \E i \in 1..Len(n) : SepAt(n, i)
\* (a split at the last separator)
SplitIndex_Last(n) == CHOOSE i \in 1..Len(n) : SepAt(n, i) /\ \A j \in (i + 1)..Len(n) : ~SepAt(n, j)
SplitIndex(n) == CHOOSE i \in 1..Len(n) : SepAt(n, i) /\ \A j \in 1..(i - 1) : ~SepAt(n, j)
parts(n) == <<SubSeq(n, 1, SplitIndex(n) - 1), SubSeq(n, SplitIndex(n) + 3, Len(n))>>
\* str.strip() and str.isdigit()
RECURSIVE lstrip(_)
lstrip(x) == IF x # <<>> /\ Head(x) = " " THEN lstrip(Tail(x)) ELSE x
RECURSIVE rstrip(_)
rstrip(x) == IF x # <<>> /\ x[Len(x)] = " " THEN rstrip(SubSeq(x, 1, Len(x) - 1)) ELSE x
strip(x) == rstrip(lstrip(x))
isdigit(x) == x # <<>> /\ \A i \in 1..Len(x) : x[i] = "0"
UnknownArtist == <<"Unknown Artist">>
extract_track_info_from_filename(filename) ==
    IF HasSep(splitext(filename))
    THEN IF isdigit(strip(parts(splitext(filename))[1]))
         THEN [artist |-> UnknownArtist, title |-> strip(parts(splitext(filename))[2])]
         ELSE [artist |-> strip(parts(splitext(filename))[1]),
               title |-> strip(parts(splitext(filename))[2])]
    ELSE [artist |-> UnknownArtist, title |-> strip(splitext(filename))]

\* add_tracks hands a file's name to the fallback
CallExtract ==
    /\ th[Main].pc = "idle"
    /\ op.name = "basename"
    /\ op' = [name |-> "extract_track_info_from_filename", arg |-> op.arg]
    /\ th' = [th EXCEPT ![Main] = [IdleTh EXCEPT
                  !.ret = extract_track_info_from_filename(op.arg)]]
    /\ UNCHANGED <<self, music, pre, dirty, adv, advdirty, disk, lib>>

(* --------------------------- the Library Store ------------------------ *)
\* dict[k] = v and del dict[k]
Put_KeepOld(m, k, v) == [q \in DOMAIN m \cup {k} |-> IF q \in DOMAIN m THEN m[q] ELSE v]
Put(m, k, v) == [q \in DOMAIN m \cup {k} |-> IF q = k THEN v ELSE m[q]]
Del(m, k) == [q \in DOMAIN m \ {k} |-> m[q]]
\* x in list, and list.remove(x): the first occurrence goes
Contains(s, x) == \E i \in 1..Len(s) : s[i] = x
FirstIndex(s, x) == CHOOSE i \in 1..Len(s) : s[i] = x /\ \A j \in 1..(i - 1) : s[j] # x
ListRemove(s, x) == SubSeq(s, 1, FirstIndex(s, x) - 1)
                    \o SubSeq(s, FirstIndex(s, x) + 1, Len(s))

\* the Track add_tracks builds from the file at p: the ID3 title and the length
\* mutagen reads, or the file name and the default duration
TrackOf(p) ==
    IF p \in disk.readable
    THEN [path |-> p, title |-> disk.tags[p], artist |-> "Unknown Artist",
          album |-> "Unknown Album", duration |-> Length[p]]
    ELSE [path |-> p, title |-> p, artist |-> "Unknown Artist",
          album |-> "Unknown Album", duration |-> DefaultDuration]

\* json.dump of [asdict(track) ...] and the dict load_library rebuilds from it
DumpTracks(m) == {m[k] : k \in DOMAIN m}
ParseTracks(S) == [k \in {r.path : r \in S} |-> CHOOSE r \in S : r.path = k]
\* the file name save_playlists and delete_playlist derive from a name
FileStem(n) == n
DumpPlaylist(pl) == [ok |-> TRUE, name |-> pl.name, tracks |-> pl.tracks]
\* a playlist file that json.load rejects
CorruptRecord == [ok |-> FALSE, name |-> None, tracks |-> <<>>]
CorruptLibrary == [exists |-> TRUE, ok |-> FALSE, tracks |-> {}]

\* save_playlists: one file per playlist in memory, other files stay
SavedPlaylists(dir, pls) ==
    [f \in DOMAIN dir \cup {FileStem(n) : n \in DOMAIN pls} |->
        IF \E n \in DOMAIN pls : FileStem(n) = f
        THEN DumpPlaylist(pls[CHOOSE n \in DOMAIN pls : FileStem(n) = f])
        ELSE dir[f]]
save_playlists(d, store) ==
    [d EXCEPT !.playlists_dir = SavedPlaylists(d.playlists_dir, store.playlists)]
save_library(d, store) ==
    [save_playlists(d, store) EXCEPT
        !.library_file = [exists |-> TRUE, ok |-> TRUE,
                          tracks |-> DumpTracks(store.tracks)]]

\* (a load_playlists that gives up at the first file it cannot parse)
Loadable_AllOrNothing(dir) == IF \E f \in DOMAIN dir : ~dir[f].ok THEN {}
                              ELSE DOMAIN dir
\* the playlist files load_playlists can parse
Loadable(dir) == {f \in DOMAIN dir : dir[f].ok}
\* load_playlists: every parseable file is stored under the name it holds; of
\* two files holding the same name the one glob lists last stays
LoadedNames(dir) == {dir[f].name : f \in Loadable(dir)}
LastListed(dir) == {w \in [LoadedNames(dir) -> Loadable(dir)] :
                        \A n \in LoadedNames(dir) : dir[w[n]].name = n}
load_playlists(dir) ==
    {[n \in LoadedNames(dir) |-> [name |-> n, tracks |-> dir[w[n]].tracks]] :
        w \in LastListed(dir)}
\* the stores a new LibraryManager can hold after load_library
load_library(d) ==
    IF ~d.library_file.exists \/ ~d.library_file.ok
    THEN {[tracks |-> EmptyMap, playlists |-> EmptyMap]}
    ELSE {[tracks |-> ParseTracks(d.library_file.tracks), playlists |-> pls] :
            pls \in load_playlists(d.playlists_dir)}

\* a call of the store by the main thread, between two calls of the player
LibCall(name, a, r) ==
    /\ th[Main].pc = "idle"
    /\ op' = [name |-> name, arg |-> a]
    /\ pre' = [lib |-> lib, disk |-> disk, playlist |-> self.playlist]
    /\ th' = [th EXCEPT ![Main] = [IdleTh EXCEPT !.ret = r]]
    /\ UNCHANGED <<music, dirty, adv, advdirty>>
\* the session's playlist when it is the list object of a store playlist that
\* has been changed in place
SharedList(pls) ==
    IF self.playlist_ref \in DOMAIN pls
    THEN [self EXCEPT !.playlist = pls[self.playlist_ref].tracks]
    ELSE self
\* the session's playlist when the store has dropped the Playlist objects in D
Unshared(D) == IF self.playlist_ref \in D THEN [self EXCEPT !.playlist_ref = None]
               ELSE self

\* LibraryManager() over the data directory, with no file in the music directory
Reload ==
    /\ \E store \in load_library(disk) : lib' = store
    /\ self' = Unshared(DOMAIN lib.playlists)
    /\ LibCall("load_library", None, None)
    /\ UNCHANGED disk

SaveLibrary ==
    /\ disk' = save_library(disk, lib)
    /\ LibCall("save_library", None, None)
    /\ UNCHANGED <<self, lib>>

RECURSIVE AddAll(_, _)
AddAll(m, paths) ==
    IF paths = <<>> THEN m
    ELSE IF ~PathExists(Head(paths)) THEN AddAll(m, Tail(paths))
    ELSE AddAll(Put(m, Head(paths), TrackOf(Head(paths))), Tail(paths))
add_tracks(paths) ==
    /\ lib' = [lib EXCEPT !.tracks = AddAll(lib.tracks, paths)]
    /\ disk' = save_library(disk, lib')
    /\ LibCall("add_tracks", paths, None)
    /\ UNCHANGED self

\* the playlists after remove_track's loop
WithoutTrack(pls, p) ==
    [n \in DOMAIN pls |->
        IF Contains(pls[n].tracks, p)
        THEN [pls[n] EXCEPT !.tracks = ListRemove(pls[n].tracks, p)]
        ELSE pls[n]]
remove_track(p) ==
    /\ IF p \in DOMAIN lib.tracks
       THEN /\ lib' = [tracks |-> Del(lib.tracks, p),
                       playlists |-> WithoutTrack(lib.playlists, p)]
            /\ self' = SharedList(lib'.playlists)
            /\ disk' = save_library(disk, lib')
       ELSE UNCHANGED <<lib, self, disk>>
    /\ LibCall("remove_track", p, None)

\* (a create_playlist that takes every name)
PlaylistExists_Never(n) == FALSE
PlaylistExists(n) == n \in DOMAIN lib.playlists
create_playlist(n) ==
    /\ IF PlaylistExists(n)
       THEN /\ LibCall("create_playlist", n, False)
            /\ UNCHANGED <<lib, disk, self>>
       ELSE /\ lib' = [lib EXCEPT !.playlists =
                          Put(lib.playlists, n, [name |-> n, tracks |-> <<>>])]
            /\ disk' = save_playlists(disk, lib')
            /\ self' = Unshared({n})
            /\ LibCall("create_playlist", n, True)

\* (an add_to_playlist that appends whatever is in the track map)
Appends_Known(s, p) == p \in DOMAIN lib.tracks
\* the test add_to_playlist makes before it appends p to the list s
Appends(s, p) == p \in DOMAIN lib.tracks /\ ~Contains(s, p)
RECURSIVE AppendAll(_, _)
AppendAll(s, paths) ==
    IF paths = <<>> THEN s
    ELSE AppendAll(IF Appends(s, Head(paths)) THEN Append(s, Head(paths)) ELSE s,
                   Tail(paths))
add_to_playlist(n, paths) ==
    /\ IF n \notin DOMAIN lib.playlists
       THEN /\ LibCall("add_to_playlist", <<n, paths>>, False)
            /\ UNCHANGED <<lib, disk, self>>
       ELSE /\ lib' = [lib EXCEPT !.playlists[n].tracks =
                          AppendAll(lib.playlists[n].tracks, paths)]
            /\ self' = SharedList(lib'.playlists)
            /\ disk' = save_playlists(disk, lib')
            /\ LibCall("add_to_playlist", <<n, paths>>, True)

remove_from_playlist(n, p) ==
    /\ IF n \in DOMAIN lib.playlists /\ Contains(lib.playlists[n].tracks, p)
       THEN /\ lib' = [lib EXCEPT !.playlists[n].tracks =
                          ListRemove(lib.playlists[n].tracks, p)]
            /\ self' = SharedList(lib'.playlists)
            /\ disk' = save_playlists(disk, lib')
            /\ LibCall("remove_from_playlist", <<n, p>>, True)
       ELSE /\ LibCall("remove_from_playlist", <<n, p>>, False)
            /\ UNCHANGED <<lib, disk, self>>

\* (a delete_playlist that leaves the file)
RemoveFile_Kept(dir, f) == dir
\* os.remove(playlist_file) when the file exists
RemoveFile(dir, f) == Del(dir, f)
delete_playlist(n) ==
    /\ IF n \in DOMAIN lib.playlists
       THEN /\ lib' = [lib EXCEPT !.playlists = Del(lib.playlists, n)]
            /\ disk' = [disk EXCEPT !.playlists_dir =
                                           RemoveFile(disk.playlists_dir, FileStem(n))]
            /\ self' = Unshared({n})
            /\ LibCall("delete_playlist", n, True)
       ELSE /\ LibCall("delete_playlist", n, False)
            /\ UNCHANGED <<lib, disk, self>>

\* a query by the main thread: the store and the records stay as they are
Query(name, a, r) ==
    /\ LibCall(name, a, r)
    /\ UNCHANGED <<lib, disk, self>>
\* list(dict.values()) and list(dict.keys()): the lists in which a dict can hold
\* the members of S
Listings(S) == {q \in [1..Cardinality(S) -> S] : \A x \in S : \E i \in DOMAIN q : q[i] = x}
get_all_tracks == \E r \in Listings(DumpTracks(lib.tracks)) : Query("get_all_tracks", None, r)
get_track(p) ==
    Query("get_track", p, IF p \in DOMAIN lib.tracks THEN lib.tracks[p] ELSE None)
get_all_playlists == \E r \in Listings(DOMAIN lib.playlists) : Query("get_all_playlists", None, r)
\* (a loop that puts each track in front of those it has)
Collected_Front(acc, t) == <<t>> \o acc
\* tracks.append(self.tracks[path])
Collected(acc, t) == Append(acc, t)
\* the loop of get_playlist_tracks over the paths still to visit
RECURSIVE PlaylistTracks(_, _)
PlaylistTracks(acc, paths) ==
    IF paths = <<>> THEN acc
    ELSE IF Head(paths) \in DOMAIN lib.tracks
         THEN PlaylistTracks(Collected(acc, lib.tracks[Head(paths)]), Tail(paths))
         ELSE PlaylistTracks(acc, Tail(paths))
get_playlist_tracks(n) ==
    Query("get_playlist_tracks", n,
          IF n \notin DOMAIN lib.playlists THEN <<>>
          ELSE PlaylistTracks(<<>>, lib.playlists[n].tracks))
\* query in text.lower(), for the queries and the texts there are
SearchInputs == {"t1", "unknown"}
InLower(query, text) == \/ query = "t1" /\ text = "T1"
                        \/ query = "unknown" /\ text \in {"Unknown Artist", "Unknown Album"}
Matching(query) == {t \in DumpTracks(lib.tracks) : \/ InLower(query, t.title)
                                                   \/ InLower(query, t.artist)
                                                   \/ InLower(query, t.album)}
search(query) == \E r \in Listings(Matching(query)) : Query("search", query, r)
\* sorted(list(set)): one listing, in ascending order; the model's stores hold
\* at most one artist and album
Sorted(S) == CHOOSE q \in Listings(S) : TRUE
get_artists == Query("get_artists", None, Sorted({t.artist : t \in DumpTracks(lib.tracks)}))
get_tracks_by_artist(artist) ==
    \E r \in Listings({t \in DumpTracks(lib.tracks) : t.artist = artist}) :
        Query("get_tracks_by_artist", artist, r)
get_albums ==
    Query("get_albums", None,
          Sorted({t.album : t \in {u \in DumpTracks(lib.tracks) : u.album # "Unknown Album"}}))
get_tracks_by_album(album) ==
    \E r \in Listings({t \in DumpTracks(lib.tracks) : t.album = album}) :
        Query("get_tracks_by_album", album, r)

\* str.lower() of an extension
Lower(e) == IF e = "MP3" THEN "mp3" ELSE IF e = "Flac" THEN "flac" ELSE e
supported_extensions == {"mp3", "wav", "ogg", "flac"}
\* any(file.lower().endswith(ext) for ext in supported_extensions)
IsAudio(f) == Lower(Ext[f]) \in supported_extensions
\* found_tracks after the walk over the music directory, in the order os.walk
\* lists the files
FoundTracks == Listings({f \in disk.music_dir.files : IsAudio(f)})
scan_library ==
    /\ IF ~disk.music_dir.exists
       THEN UNCHANGED <<lib, disk>>
       ELSE \E found_tracks \in FoundTracks :
               IF found_tracks # <<>>
               THEN /\ lib' = [lib EXCEPT !.tracks = AddAll(lib.tracks, found_tracks)]
                    /\ disk' = save_library(disk, lib')
               ELSE UNCHANGED <<lib, disk>>
    /\ LibCall("scan_library", None, None)
    /\ UNCHANGED self

\* os.makedirs(self.library_path, exist_ok=True)
MakeMusicDir ==
    /\ th[Main].pc = "idle"
    /\ ~disk.music_dir.exists
    /\ disk' = [disk EXCEPT !.music_dir = EmptyDir]
    /\ op' = NoOp
    /\ pre' = NoSnap
    /\ UNCHANGED <<self, music, th, dirty, adv, advdirty, lib>>
\* someone copies the file f into the music directory
DropFile(f) ==
    /\ th[Main].pc = "idle"
    /\ disk.music_dir.exists
    /\ f \in disk.existing \ disk.music_dir.files
    /\ disk' = [disk EXCEPT !.music_dir.files = @ \cup {f}]
    /\ op' = NoOp
    /\ pre' = NoSnap
    /\ UNCHANGED <<self, music, th, dirty, adv, advdirty, lib>>

\* someone edits the title tag of the file at p
Retag(p) ==
    /\ th[Main].pc = "idle"
    /\ disk.tags[p] = "T1"
    /\ disk' = [disk EXCEPT !.tags[p] = "T2"]
    /\ op' = NoOp
    /\ pre' = NoSnap
    /\ UNCHANGED <<self, music, th, dirty, adv, advdirty, lib>>

(* ------------------------------- Init --------------------------------- *)
\* the session after AudioPlayer.__init__ and, when tracks is not empty, a first
\* set_playlist(tracks); the store after LibraryManager() over the data
\* directory of d
InitWith(d, tracks) ==
    /\ \E pg \in BOOLEAN :
         /\ self = [pygame_available |-> pg, mutagen_available |-> MUTAGEN_AVAILABLE,
                 current_track |-> None, is_playing |-> FALSE, volume |-> 7,
                 position |-> 0, duration |-> 0, player_thread |-> NoThread,
                 stop_event |-> FALSE, playlist |-> tracks,
                 current_playlist_index |-> -1, playlist_ref |-> None]
         \* pygame.mixer.music.set_volume(self.volume); no mixer, no sound
         /\ music = [loaded |-> None, state |-> "stopped", start |-> 0,
                     volume |-> IF pg THEN 7 ELSE 0]
    /\ th = [t \in Threads |-> IF t = Main THEN IdleTh ELSE DeadTh]
    /\ op = NoOp
    /\ pre = NoSnap
    /\ dirty = FALSE
    /\ adv = NoAdv
    /\ advdirty = FALSE
    /\ disk = d
    /\ lib \in load_library(d)

\* a store about to add a file named filename whose tags cannot be read
InitFilename ==
    \E filename \in Filenames :
        /\ self = [pygame_available |-> TRUE, mutagen_available |-> MUTAGEN_AVAILABLE,
                   current_track |-> None, is_playing |-> FALSE, volume |-> 7,
                   position |-> 0, duration |-> 0, player_thread |-> NoThread,
                   stop_event |-> FALSE, playlist |-> <<>>,
                   current_playlist_index |-> -1, playlist_ref |-> None]
        /\ music = [loaded |-> None, state |-> "stopped", start |-> 0, volume |-> 7]
        /\ th = [t \in Threads |-> IF t = Main THEN IdleTh ELSE DeadTh]
        /\ op = [name |-> "basename", arg |-> filename]
        /\ pre = NoSnap
        /\ dirty = FALSE
        /\ adv = NoAdv
        /\ advdirty = FALSE
        /\ disk = DiskSound
        /\ lib \in load_library(DiskSound)
NextFilename == CallExtract
SpecFilename == InitFilename /\ [][NextFilename]_vars

(* ------------------- the calls made by the main thread ---------------- *)
Begin(name, a, entry) ==
    /\ th[Main].pc = "idle"
    /\ th' = [th EXCEPT ![Main] = [IdleTh EXCEPT !.pc = entry, !.stack = <<"done">>,
                                                 !.arg = a, !.depth = 1]]
    /\ op' = [name |-> name, arg |-> a]
    /\ pre' = Session
    /\ dirty' = FALSE
    /\ MainTouchesAdv
    /\ UNCHANGED <<self, music, disk, lib>>

CallLoad(p) == Begin("load", p, "load")
CallPlay == Begin("play", None, "play")
CallPause == Begin("pause", None, "pause")
CallStop == Begin("stop", None, "stop")
CallSeek(p) == Begin("seek", p, "seek")
CallSetVolume(v) == Begin("set_volume", v, "set_volume")
\* the + and - keys
KeyPlus == CallSetVolume(self.volume + 1)
KeyMinus == CallSetVolume(self.volume - 1)
CallSetPlaylist(tracks) == Begin("set_playlist", tracks, "set_playlist")
\* a caller hands the track list of the store's playlist n to the session
CallSetPlaylistOf(n) ==
    /\ th[Main].pc = "idle"
    /\ n \in DOMAIN lib.playlists
    /\ th' = [th EXCEPT ![Main] = [IdleTh EXCEPT !.pc = "set_playlist",
                                                 !.stack = <<"done">>,
                                                 !.arg = lib.playlists[n].tracks,
                                                 !.ref = n, !.depth = 1]]
    /\ op' = [name |-> "set_playlist", arg |-> lib.playlists[n].tracks]
    /\ pre' = Session
    /\ dirty' = FALSE
    /\ MainTouchesAdv
    /\ UNCHANGED <<self, music, disk, lib>>
CallNext == Begin("next_track", None, "next")
CallToggle == Begin("toggle_play_pause", None, "toggle")
CallPrevious == Begin("previous_track", None, "previous")

\* the call has returned to TerminalApp.run, which waits for the next key
Done ==
    /\ th[Main].pc = "done"
    /\ th' = [th EXCEPT ![Main] = IdleTh]
    /\ op' = NoOp
    /\ pre' = NoSnap
    /\ dirty' = FALSE
    /\ MainTouchesAdv
    /\ UNCHANGED <<self, music, disk, lib>>

(* --------------------------- specifications --------------------------- *)
\* the steps of the methods, whichever thread runs them
Methods ==
    \/ \E t \in Threads : stop(t)
    \/ \E t \in Threads : load(t)
    \/ \E t \in Threads : play(t)
    \/ \E t \in Threads : next_track(t)
    \/ \E l \in Loops : playback_thread(l)
    \/ MusicEnds
    \/ Done

\* transport: the main thread loads, plays, pauses, stops and skips over a
\* playlist that has been set
Init == InitWith(DiskSound, <<"a", "z">>)

Next ==
    \/ \E p \in {"a", "m"} : CallLoad(p)
    \/ CallPlay
    \/ CallPause
    \/ CallStop
    \/ CallNext
    \/ CallPrevious
    \/ \E t \in Threads : pause(t)
    \/ \E t \in Threads : previous_track(t)
    \/ Methods

Spec == Init /\ [][Next]_vars

\* playlists: the main thread sets playlists and skips
InitPlaylist == InitWith(DiskSound, <<>>)

NextPlaylist ==
    \/ \E tracks \in PlaylistInputs : CallSetPlaylist(tracks)
    \/ CallNext
    \/ \E t \in Threads : set_playlist(t)
    \/ Methods

SpecPlaylist == InitPlaylist /\ [][NextPlaylist]_vars

\* faults: one of the files is one the mixer cannot decode
InitFault == InitWith(DiskCorrupt, <<"a", "k">>)

NextFault ==
    \/ \E p \in {"a", "k"} : CallLoad(p)
    \/ CallPlay
    \/ CallPause
    \/ CallStop
    \/ \E t \in Threads : pause(t)
    \/ Methods

SpecFault == InitFault /\ [][NextFault]_vars

\* seeking: the main thread loads one track, plays, pauses and seeks
InitSeek == InitWith(DiskSound, <<"a", "z">>)

NextSeek ==
    \/ CallLoad("a")
    \/ CallPlay
    \/ CallPause
    \/ \E p \in SeekInputs : CallSeek(p)
    \/ \E t \in Threads : pause(t)
    \/ \E t \in Threads : seek(t)
    \/ Methods

SpecSeek == InitSeek /\ [][NextSeek]_vars

\* volume: the main thread loads and plays a track and sets the volume, by
\* value and with the + and - keys
InitVolume == InitWith(DiskSound, <<"a", "z">>)

NextVolume ==
    \/ CallLoad("a")
    \/ CallPlay
    \/ \E v \in VolumeInputs : CallSetVolume(v)
    \/ KeyPlus
    \/ KeyMinus
    \/ \E t \in Threads : set_volume(t)
    \/ Methods

SpecVolume == InitVolume /\ [][NextVolume]_vars

\* going back: the main thread loads a track longer than the restart
\* threshold, plays it and goes back, over a playlist with a missing entry or
\* with nothing but a missing entry
InitPrevious == \E tracks \in {<<"b", "m", "z">>, <<"m">>} : InitWith(DiskLong, tracks)

NextPrevious ==
    \/ CallLoad("b")
    \/ CallPlay
    \/ CallPrevious
    \/ \E t \in Threads : previous_track(t)
    \/ Methods

SpecPrevious == InitPrevious /\ [][NextPrevious]_vars

\* the store: the main thread uses a store that starts with an empty data
\* directory, restarts it, and hands its playlists to the session
InitStore == InitWith(DiskSound, <<>>)

StoreCalls ==
    \/ \E paths \in AddInputs : add_tracks(paths)
    \/ \E p \in LibPaths : remove_track(p)
    \/ \E n \in Names : create_playlist(n)
    \/ \E n \in Names : \E paths \in AppendInputs : add_to_playlist(n, paths)
    \/ \E n \in Names : \E p \in LibPaths : remove_from_playlist(n, p)
    \/ \E n \in Names : delete_playlist(n)
    \/ SaveLibrary
    \/ Reload

NextStore ==
    \/ StoreCalls
    \/ Retag("a")
    \/ \E n \in Names : CallSetPlaylistOf(n)
    \/ \E t \in Threads : set_playlist(t)
    \/ Done

SpecStore == InitStore /\ [][NextStore]_vars

\* the store over a data directory that was edited by hand
InitDamaged == \E d \in {DiskEdited, DiskBroken} : InitWith(d, <<>>)

Queries ==
    \/ get_all_tracks
    \/ \E p \in LibPaths : get_track(p)
    \/ get_all_playlists
    \/ \E n \in Names : get_playlist_tracks(n)
    \/ \E query \in SearchInputs : search(query)
    \/ get_artists
    \/ \E artist \in {"Unknown Artist"} : get_tracks_by_artist(artist)
    \/ get_albums
    \/ \E album \in {"Unknown Album"} : get_tracks_by_album(album)

NextDamaged == StoreCalls \/ Queries

SpecDamaged == InitDamaged /\ [][NextDamaged]_vars

\* the scan: the music directory is created, files are copied into it, the store
\* scans it between additions, removals and new playlists
InitScan == InitWith(DiskUnmade, <<>>)

NextScan ==
    \/ scan_library
    \/ MakeMusicDir
    \/ \E f \in {"a", "z", "t"} : DropFile(f)
    \/ \E paths \in AddInputs : add_tracks(paths)
    \/ \E p \in LibPaths : remove_track(p)
    \/ \E n \in Names : create_playlist(n)

SpecScan == InitScan /\ [][NextScan]_vars

\* the space bar: the user toggles over a music directory, with no playlist set
InitToggle == \E S \in MusicInputs : InitWith(DiskMusic(S), <<>>)

NextToggle ==
    \/ CallToggle
    \/ \E t \in Threads : toggle_play_pause(t)
    \/ \E t \in Threads : load_from_directory(t)
    \/ \E t \in Threads : set_playlist(t)
    \/ \E t \in Threads : pause(t)
    \/ Methods

SpecToggle == InitToggle /\ [][NextToggle]_vars

\* unattended play: the user starts the playlist once and leaves the player
\* alone
InitAuto == InitWith(DiskSound, <<"a", "z">>)
\* the first key press
StartOnce ==
    /\ self.current_track = None
    /\ CallNext
\* the steps thread t can take
ThreadStep(t) ==
    \/ stop(t)
    \/ load(t)
    \/ play(t)
    \/ next_track(t)
    \/ (t \in Loops /\ playback_thread(t))
NextAuto ==
    \/ StartOnce
    \/ \E t \in Threads : ThreadStep(t)
    \/ MusicEnds
    \/ Done
\* every thread that can run does run, and the sound that plays comes to its end
FairAuto ==
    /\ \A t \in Threads : WF_vars(ThreadStep(t))
    /\ WF_vars(MusicEnds)
    /\ WF_vars(Done)
SpecAuto == InitAuto /\ [][NextAuto]_vars /\ FairAuto

(* ------------------------------ properties ---------------------------- *)
\* the main thread's call has returned and nothing else ran meanwhile
Returned(name) == th[Main].pc = "done" /\ op.name = name
Alone(name) == Returned(name) /\ ~dirty
Result == th[Main].ret
ValidIndex == \/ self.current_playlist_index = -1
              \/ /\ 0 <= self.current_playlist_index
                 /\ self.current_playlist_index < Len(self.playlist)
\* the audio facility accepts load(p) / the play() of the session in `pre`
LoadAccepted(p) == self.pygame_available => p \in disk.decodable
PlayAccepted == self.pygame_available => pre.music.loaded # None

\* C1: whenever play() (called directly or by next()/previous()) has returned
\* true and the session is Playing, a position tracking loop is running for it.
C1_PlayingHasLoop ==
    (/\ th[Main].pc = "done"
     /\ op.name \in {"play", "next_track", "previous_track"}
     /\ Result = True
     /\ self.is_playing)
    => Alive # {}

\* C2: when the loop has detected the end of the track and its call of next()
\* has returned without the main thread stepping in between, and the next entry
\* is loadable, then position is 0, current_index is the next index (wrapping),
\* that entry is current_track and the session is Playing.
C2_NextEntry == adv.playlist[((adv.idx + 1) % Len(adv.playlist)) + 1]
C2_AutoAdvance ==
    \A l \in Loops :
        (/\ th[l].pc = "loop_after"
         /\ adv.active /\ ~advdirty
         /\ adv.playlist # <<>>
         /\ C2_NextEntry \in disk.existing /\ LoadAccepted(C2_NextEntry))
        => /\ th[l].ret = True
           /\ self.position = 0
           /\ self.current_playlist_index = (adv.idx + 1) % Len(adv.playlist)
           /\ self.current_track = C2_NextEntry
           /\ self.is_playing
C2_Witness ==
    \E l \in Loops :
        /\ th[l].pc = "loop_after" /\ adv.active /\ ~advdirty
        /\ adv.playlist = <<"a", "z">> /\ adv.idx = 1
        /\ self.current_playlist_index = 0 /\ self.current_track = "a"
        /\ self.is_playing

\* C3: next() makes at most len(playlist) load attempts and then returns a
\* boolean; it never raises.
C3_NextBounded ==
    /\ (op.name = "next_track" /\ ~dirty /\ th[Main].pc = "load")
         => th[Main].depth <= Len(self.playlist)
    /\ \A t \in Threads : th[t].ret # "RecursionError"

\* C4: in every reachable state 0 <= position <= duration.
C4_PositionInRange == 0 <= self.position /\ self.position <= self.duration

\* C5: whenever a thread indexes playlist[current_index], under every
\* interleaving of set_playlist/next/previous with the loop's auto-advance,
\* current_index is a valid index of the playlist.
C5_IndexValid ==
    \A t \in Threads :
        th[t].pc \in {"next_fetch", "previous_fetch"}
        => InRange(self.playlist, self.current_playlist_index)

\* C6: once pause() or stop() has returned and the main thread calls nothing
\* else, no step changes position, is_playing, current_track or current_index.
C6_Quiet == /\ th[Main].pc = "done"
            /\ \/ op.name = "stop"
               \/ op.name = "pause" /\ Result = True
C6_Cancelled ==
    [][C6_Quiet =>
         /\ self'.position = self.position
         /\ self'.is_playing = self.is_playing
         /\ self'.current_track = self.current_track
         /\ self'.current_playlist_index = self.current_playlist_index]_vars

\* C7: at most one position tracking thread is alive at any time.
C7_SingleLoop == Cardinality(Alive) <= 1
C7_Witness ==
    /\ Alive # {}
    /\ \E t \in Threads : th[t].pc = "play_thread" /\ t \notin Alive

\* C8: load(path) of a path that does not exist returns failure and leaves the
\* whole session, the mixer and the loop as they were.
C8_LoadMissing ==
    (Returned("load") /\ op.arg \notin disk.existing)
    => /\ Result = False
       /\ ~dirty => Session = pre
C8_Witness ==
    /\ Alone("load") /\ op.arg \notin disk.existing
    /\ pre.is_playing /\ pre.alive # {} /\ pre.position > 0

\* C9: when the audio facility fails inside an operation, the operation reports
\* failure and the session keeps the current_track, duration, position and
\* is_playing it had before.
C9_FacilityFailure ==
    (Alone("load") /\ op.arg \in disk.existing /\ ~LoadAccepted(op.arg))
    => /\ Result = False
       /\ self.current_track = pre.current_track
       /\ self.duration = pre.duration
       /\ self.position = pre.position
       /\ self.is_playing = pre.is_playing

\* C10 as stated: play() with no track returns false and changes nothing; while
\* Playing it returns true and changes nothing; otherwise it starts the audio
\* facility at the current position, sets is_playing and returns true.
C10_Started ==
    /\ Result = True
    /\ self.is_playing
    /\ self.position = pre.position
    /\ self.current_track = pre.current_track
    /\ self.pygame_available
         => music = [pre.music EXCEPT !.state = "playing", !.start = pre.position]
C11_Pause ==
    Alone("pause") =>
        IF ~pre.is_playing THEN Result = False /\ Session = pre
        ELSE /\ Result = True
             /\ Session = [pre EXCEPT !.is_playing = FALSE, !.music = music]
             /\ music = IF ~self.pygame_available THEN pre.music
                        ELSE IF pre.music.state = "playing"
                             THEN [pre.music EXCEPT !.state = "paused"]
                             ELSE pre.music
C11_Witness ==
    /\ Alone("pause") /\ Result = True
    /\ pre.is_playing /\ pre.position > 0
    /\ pre.music.state = "playing" /\ music.state = "paused"

\* C12: stop() from any state leaves is_playing false, position 0 and the
\* audio facility halted, and leaves current_track, duration, volume, playlist
\* and current_index as they were.
C12_Stop ==
    Alone("stop") =>
        /\ ~self.is_playing
        /\ self.position = 0
        /\ self.pygame_available => music.state = "stopped"
        /\ music.loaded = pre.music.loaded
        /\ self.current_track = pre.current_track
        /\ self.duration = pre.duration
        /\ self.volume = pre.volume
        /\ self.playlist = pre.playlist
        /\ self.current_playlist_index = pre.current_playlist_index
C12_Witness ==
    /\ Alone("stop")
    /\ pre.is_playing /\ pre.position > 0 /\ pre.current_track # None
    /\ pre.music.state = "playing" /\ music.state = "stopped"

\* C13: seek(p) returns with position = p clamped to [0, duration] in every
\* state, leaves is_playing, current_track and current_index (and duration,
\* volume, playlist) as they were, and when the session was Playing restarts
\* the audio facility at the clamped offset; otherwise it leaves the facility
\* alone.  It never raises.
C13_Clamped == IF op.arg < 0 THEN 0
               ELSE IF op.arg > pre.duration THEN pre.duration ELSE op.arg
C13_Seek ==
    /\ Alone("seek") =>
        /\ self.position = C13_Clamped
        /\ 0 <= self.position /\ self.position <= self.duration
        /\ Session = [pre EXCEPT !.position = C13_Clamped, !.music = music]
        /\ music = IF pre.is_playing /\ self.pygame_available
                   THEN [pre.music EXCEPT !.state = "playing", !.start = C13_Clamped]
                   ELSE pre.music
    /\ op.name = "seek" => th[Main].pc # "raised"
C13_Witness ==
    /\ Alone("seek") /\ op.arg > pre.duration /\ pre.duration > 0
    /\ pre.is_playing /\ pre.position < pre.duration
    /\ music.state = "playing" /\ music.start = self.duration

\* C14: after any sequence of set_volume calls, with arbitrary arguments or the
\* UI's +0.1 / -0.1 steps, 0 <= volume <= 1; set_volume(v) stores
\* min(1, max(0, v)) and forwards exactly that value to the audio facility.
C14_Stored == IF op.arg < 0 THEN 0 ELSE IF op.arg > MaxVolume THEN MaxVolume ELSE op.arg
C14_Volume ==
    /\ 0 <= self.volume /\ self.volume <= MaxVolume
    /\ Returned("set_volume") =>
        /\ self.volume = C14_Stored
        /\ self.pygame_available => music.volume = self.volume
        /\ ~self.pygame_available => music.volume = 0
C14_Witness ==
    /\ Returned("set_volume") /\ op.arg = MaxVolume + 1
    /\ pre.volume = MaxVolume /\ self.volume = MaxVolume
    /\ music.volume = MaxVolume /\ music.state = "playing"

\* C15: set_playlist(paths) with a non-empty sequence returns true, makes paths
\* the playlist and current_index -1 and leaves everything else, current_track,
\* is_playing and position included, as it was; with an empty sequence it
\* returns false and changes nothing.
C15_SetPlaylist ==
    Alone("set_playlist") =>
        IF op.arg = <<>> THEN Result = False /\ Session = pre
        ELSE /\ Result = True
             /\ Session = [pre EXCEPT !.playlist = op.arg,
                                      !.current_playlist_index = -1]
C15_Witness ==
    /\ Alone("set_playlist") /\ op.arg = <<"m">>
    /\ pre.playlist = <<"a", "z">> /\ pre.current_playlist_index = 1
    /\ pre.is_playing /\ self.current_track = "z"
    /\ self.playlist = <<"m">> /\ self.current_playlist_index = -1

\* C16: next() returns false and changes nothing when the playlist is empty;
\* otherwise, when the following entry loads, current_index becomes
\* (current_index + 1) mod len(playlist), current_track that entry, position 0
\* and the session Playing, and next() returns true.
C16_Index == (pre.current_playlist_index + 1) % Len(pre.playlist)
C16_Entry == pre.playlist[C16_Index + 1]
C16_Next ==
    Alone("next_track") =>
        IF pre.playlist = <<>> THEN Result = False /\ Session = pre
        ELSE (C16_Entry \in disk.existing /\ LoadAccepted(C16_Entry))
             => /\ Result = True
                /\ self.current_playlist_index = C16_Index
                /\ self.current_track = C16_Entry
                /\ self.position = 0
                /\ self.is_playing
                /\ self.playlist = pre.playlist
C16_Witness ==
    /\ Alone("next_track") /\ Result = True
    /\ Len(pre.playlist) = 3 /\ pre.current_playlist_index = 2
    /\ pre.is_playing
    /\ self.current_playlist_index = 0 /\ self.current_track = pre.playlist[1]
    /\ self.is_playing

\* C17: previous() with position < 3 s moves current_index one entry back,
\* wrapping from 0 and from -1 to len(playlist) - 1, and (when that entry loads)
\* loads and plays it; with position >= 3 s it leaves current_index unchanged
\* and restarts the current track: current_track is the track it was before the
\* call, position is 0 and the session is Playing.
C17_AtStart == pre.position < RestartThreshold * TicksPerSecond
C17_Index == IF pre.current_playlist_index > 0 THEN pre.current_playlist_index - 1
             ELSE Len(pre.playlist) - 1
C17_Entry == pre.playlist[C17_Index + 1]
C17_Previous ==
    (Alone("previous_track") /\ pre.playlist # <<>>) =>
        IF C17_AtStart
        THEN (C17_Entry \in disk.existing /\ LoadAccepted(C17_Entry))
             => /\ self.current_playlist_index = C17_Index
                /\ self.current_track = C17_Entry
                /\ self.position = 0
                /\ self.is_playing
        ELSE /\ self.current_playlist_index = pre.current_playlist_index
             /\ self.current_track = pre.current_track
             /\ self.position = 0
             /\ self.is_playing

C19_PreviousBounded ==
    (op.name = "previous_track" /\ ~dirty) =>
        /\ th[Main].pc = "load" => th[Main].depth <= Len(self.playlist)
        /\ th[Main].pc # "raised"

\* C20: simulated mode.  When the audio facility is unavailable the facility is
\* never touched, load() of an existing file, play() with a track and pause()
\* while Playing return true, and every wake-up of the background loop adds
\* one interval to position; as soon as position >= duration (and not before)
\* the end-of-track handling runs: position is reset, is_playing cleared and
\* next() called.
C20_Succeeds ==
    /\ (Alone("load") /\ op.arg \in disk.existing)
          => Result = True /\ self.current_track = op.arg /\ self.position = 0
    /\ (Alone("play") /\ pre.current_track # None)
          => Result = True /\ self.is_playing
    /\ (Alone("pause") /\ pre.is_playing) => Result = True /\ ~self.is_playing
    /\ Alone("stop") => ~self.is_playing /\ self.position = 0
    /\ Result # "pygame.error"
C20_Wakeup(l) ==
    /\ th[l].pc = "loop_test"
         => (th'[l].pc = "loop_busy") = (~self.stop_event /\ self.is_playing)
    /\ th[l].pc = "loop_busy" => th'[l].pc = "loop_idle"
    /\ th[l].pc = "loop_idle" => th'[l].pc = "loop_tick"
    /\ th[l].pc = "loop_tick"
         => self'.position = self.position + 1 /\ th'[l].pc = "loop_check"
    /\ th[l].pc = "loop_check"
         => (th'[l].pc = "loop_end_position") = (self.position >= self.duration)
    /\ th[l].pc = "loop_end_position"
         => self'.position = 0 /\ th'[l].pc = "loop_end_flag"
    /\ th[l].pc = "loop_end_flag" => ~self'.is_playing /\ th'[l].pc = "next"
C20_Step ==
    ~self.pygame_available =>
        /\ music' = music
        /\ C20_Succeeds
        /\ \A l \in Loops : th'[l] # th[l] => C20_Wakeup(l)
C21_IndependentCopy ==
    [][lib' # lib =>
         /\ self'.playlist = self.playlist
         /\ ValidIndex => ValidIndex']_vars

\* C22: round trip: in every store state the store operations reach, right
\* after save_library a new store that loads the persisted records holds the
\* same track map and the same playlists as the store that saved.
C22_RoundTrip ==
    op.name = "save_library" => load_library(disk) = {lib}

\* C23: right after a successful add, remove, createPlaylist, addToPlaylist,
\* removeFromPlaylist or deletePlaylist, a new store that loads the persisted
\* records holds the same tracks and the same playlists as the store in memory.
C23_Mutated ==
    \/ op.name \in {"add_tracks", "remove_track"}
    \/ /\ op.name \in {"create_playlist", "add_to_playlist",
                        "remove_from_playlist", "delete_playlist"}
       /\ Result = True
C23_Persisted ==
    C23_Mutated => load_library(disk) = {lib}

\* C24: on load, a library.json that does not parse leaves the track map and
\* the playlists map empty; a playlist file that does not parse is skipped
\* alone: the tracks of library.json and every playlist file that parses are
\* loaded.
C24_Load ==
    (op.name = "load_library" /\ disk.library_file.exists) =>
        IF ~disk.library_file.ok
        THEN lib.tracks = EmptyMap /\ lib.playlists = EmptyMap
        ELSE /\ DOMAIN lib.tracks = {r.path : r \in disk.library_file.tracks}
             /\ \A k \in DOMAIN lib.tracks : lib.tracks[k] \in disk.library_file.tracks
             /\ \A f \in DOMAIN disk.playlists_dir :
                    disk.playlists_dir[f].ok
                    => disk.playlists_dir[f].name \in DOMAIN lib.playlists
             /\ \A n \in DOMAIN lib.playlists :
                    \E f \in DOMAIN disk.playlists_dir :
                        /\ disk.playlists_dir[f].ok
                        /\ disk.playlists_dir[f].name = n
                        /\ disk.playlists_dir[f].tracks = lib.playlists[n].tracks
C24_Witness ==
    /\ op.name = "load_library"
    /\ disk.library_file.ok
    /\ \E f \in DOMAIN disk.playlists_dir : ~disk.playlists_dir[f].ok
    /\ DOMAIN lib.tracks # {} /\ DOMAIN lib.playlists # {}

\* C25: after remove(path) path is no key of the track map and no playlist
\* holds it, in every store state, and the other entries of every playlist
\* keep their order.
C25_Others(s) == SelectSeq(s, LAMBDA q : q # op.arg)
C25_Removed ==
    op.name = "remove_track" =>
        /\ op.arg \notin DOMAIN lib.tracks
        /\ DOMAIN lib.playlists = DOMAIN pre.lib.playlists
        /\ \A n \in DOMAIN lib.playlists :
              lib.playlists[n].tracks = C25_Others(pre.lib.playlists[n].tracks)

\* C26: adding a path that is already a key of the track map (its file still
\* there) leaves one Track under that key, with the fields the second add
\* computes; no other track and no playlist changes.
C26_Added(p) == Contains(op.arg, p) /\ p \in disk.existing
C26_IdempotentAdd ==
    op.name = "add_tracks" =>
        /\ \A p \in DOMAIN pre.lib.tracks :
              /\ p \in DOMAIN lib.tracks
              /\ lib.tracks[p].path = p
              /\ lib.tracks[p] = IF C26_Added(p) THEN TrackOf(p) ELSE pre.lib.tracks[p]
        /\ DOMAIN lib.tracks = DOMAIN pre.lib.tracks \cup {p \in Files : C26_Added(p)}
        /\ lib.playlists = pre.lib.playlists
C26_Witness ==
    /\ op.name = "add_tracks"
    /\ "a" \in DOMAIN pre.lib.tracks /\ "z" \in DOMAIN pre.lib.tracks
    /\ pre.lib.tracks["a"].title = "T1" /\ lib.tracks["a"].title = "T2"
    /\ \E n \in DOMAIN lib.playlists : Contains(lib.playlists[n].tracks, "a")

\* C27: createPlaylist(name) returns false when the name exists and then the
\* store and the records are as before; otherwise it returns true and
\* playlists[name] is an empty playlist, everything else as before.
C27_Create ==
    op.name = "create_playlist" =>
        IF op.arg \in DOMAIN pre.lib.playlists
        THEN Result = False /\ lib = pre.lib /\ disk = pre.disk
        ELSE /\ Result = True
             /\ DOMAIN lib.playlists = DOMAIN pre.lib.playlists \cup {op.arg}
             /\ lib.playlists[op.arg] = [name |-> op.arg, tracks |-> <<>>]
             /\ \A n \in DOMAIN pre.lib.playlists : lib.playlists[n] = pre.lib.playlists[n]
             /\ lib.tracks = pre.lib.tracks
C27_Witness ==
    /\ op.name = "create_playlist" /\ Result = False
    /\ lib.playlists[op.arg].tracks # <<>>
    /\ DOMAIN lib.tracks # {}

\* C28: addToPlaylist(name, paths) returns false and changes nothing when the
\* playlist does not exist; otherwise it appends, in argument order, exactly
\* the paths that are keys of the track map and not yet in the playlist, each
\* once; the same call again changes nothing.
C28_Old == pre.lib.playlists[op.arg[1]].tracks
C28_New == lib.playlists[op.arg[1]].tracks
C28_Pos(p) == CHOOSE i \in 1..Len(op.arg[2]) :
                  op.arg[2][i] = p /\ \A j \in 1..(i - 1) : op.arg[2][j] # p
C28_Append ==
    op.name = "add_to_playlist" =>
        IF op.arg[1] \notin DOMAIN pre.lib.playlists
        THEN Result = False /\ lib = pre.lib /\ disk = pre.disk
        ELSE /\ Result = True
             /\ Len(C28_New) >= Len(C28_Old)
             /\ SubSeq(C28_New, 1, Len(C28_Old)) = C28_Old
             /\ {C28_New[i] : i \in (Len(C28_Old) + 1)..Len(C28_New)}
                  = {p \in DOMAIN lib.tracks :
                        Contains(op.arg[2], p) /\ ~Contains(C28_Old, p)}
             /\ \A i, j \in (Len(C28_Old) + 1)..Len(C28_New) :
                    i < j => C28_Pos(C28_New[i]) < C28_Pos(C28_New[j])
             /\ AppendAll(C28_New, op.arg[2]) = C28_New
             /\ \A n \in DOMAIN pre.lib.playlists \ {op.arg[1]} :
                    lib.playlists[n] = pre.lib.playlists[n]
             /\ DOMAIN lib.playlists = DOMAIN pre.lib.playlists
             /\ lib.tracks = pre.lib.tracks
C28_Witness ==
    /\ op.name = "add_to_playlist" /\ Result = True
    /\ op.arg[2] = <<"z", "z", "m", "a">>
    /\ C28_Old = <<"a">> /\ C28_New = <<"a", "z">>

\* C29: removeFromPlaylist(name, path) returns false exactly when the playlist
\* does not exist; on an existing playlist it returns true, persists, and
\* afterwards the playlist does not hold path, its other entries keep their
\* order and nothing else changes.
C29_Others(s) == SelectSeq(s, LAMBDA q : q # op.arg[2])
C29_RemoveFrom ==
    op.name = "remove_from_playlist" =>
        IF op.arg[1] \notin DOMAIN pre.lib.playlists
        THEN Result = False /\ lib = pre.lib /\ disk = pre.disk
        ELSE /\ Result = True
             /\ lib.playlists[op.arg[1]].tracks
                  = C29_Others(pre.lib.playlists[op.arg[1]].tracks)
             /\ \A n \in DOMAIN pre.lib.playlists \ {op.arg[1]} :
                    lib.playlists[n] = pre.lib.playlists[n]
             /\ lib.tracks = pre.lib.tracks
             /\ disk.playlists_dir[FileStem(op.arg[1])].tracks
                  = lib.playlists[op.arg[1]].tracks

\* C30: deletePlaylist(name) returns false and changes nothing when the name
\* does not exist; otherwise it returns true, the entry and its file are gone,
\* every other playlist, every other file and all tracks are as before, and a
\* save followed by a load does not bring the playlist back.
C30_Delete ==
    op.name = "delete_playlist" =>
        IF op.arg \notin DOMAIN pre.lib.playlists
        THEN Result = False /\ lib = pre.lib /\ disk = pre.disk
        ELSE /\ Result = True
             /\ DOMAIN lib.playlists = DOMAIN pre.lib.playlists \ {op.arg}
             /\ \A n \in DOMAIN lib.playlists : lib.playlists[n] = pre.lib.playlists[n]
             /\ lib.tracks = pre.lib.tracks
             /\ DOMAIN disk.playlists_dir = DOMAIN pre.disk.playlists_dir \ {op.arg}
             /\ \A f \in DOMAIN disk.playlists_dir :
                    disk.playlists_dir[f] = pre.disk.playlists_dir[f]
             /\ disk.library_file = pre.disk.library_file
             /\ \A store \in load_library(save_library(disk, lib)) :
                    op.arg \notin DOMAIN store.playlists
C30_Witness ==
    /\ op.name = "delete_playlist" /\ Result = True
    /\ op.arg \in DOMAIN pre.disk.playlists_dir
    /\ pre.lib.playlists[op.arg].tracks # <<>>
    /\ DOMAIN lib.playlists # {} /\ DOMAIN lib.tracks # {}

\* C31: right after scan_library, when the root did not exist the store and the
\* persisted records are those from before; when it existed, every file in it
\* with extension mp3, wav, ogg or flac (in any case) is a key of the track
\* map, every new key is such a file, no key from before is gone, and the
\* persisted records are those save_library writes for the store
C31_Listed(f) == Lower(Ext[f]) \in {"mp3", "wav", "ogg", "flac"}
C31_Scan ==
    op.name = "scan_library" =>
        IF ~pre.disk.music_dir.exists
        THEN lib = pre.lib /\ disk = pre.disk
        ELSE /\ \A f \in pre.disk.music_dir.files :
                    C31_Listed(f) => f \in DOMAIN lib.tracks
             /\ \A k \in DOMAIN lib.tracks \ DOMAIN pre.lib.tracks :
                    k \in pre.disk.music_dir.files /\ C31_Listed(k)
             /\ DOMAIN pre.lib.tracks \subseteq DOMAIN lib.tracks
             /\ disk = save_library(pre.disk, lib)

\* C32: right after get_playlist_tracks(name) the result is, in playlist order,
\* the Track of each playlist path that is a key of the track map (nothing for an
\* unknown name), and right after any query the tracks, the playlists and the
\* persisted records are those from before the call
C32_QueryNames == {"get_all_tracks", "get_track", "get_all_playlists",
                   "get_playlist_tracks", "search", "get_artists",
                   "get_tracks_by_artist", "get_albums", "get_tracks_by_album"}
C32_Resolved == SelectSeq(pre.lib.playlists[op.arg].tracks,
                          LAMBDA q : q \in DOMAIN pre.lib.tracks)
C32_ReadOnly ==
    /\ op.name = "get_playlist_tracks" =>
          IF op.arg \notin DOMAIN pre.lib.playlists THEN Result = <<>>
          ELSE /\ Len(Result) = Len(C32_Resolved)
               /\ \A i \in 1..Len(Result) : Result[i] = pre.lib.tracks[C32_Resolved[i]]
    /\ op.name \in C32_QueryNames => lib = pre.lib /\ disk = pre.disk
C32_Witness ==
    /\ op.name = "get_playlist_tracks"
    /\ op.arg \in DOMAIN lib.playlists
    /\ Len(Result) >= 2
    /\ Result[1] # Result[Len(Result)]
    /\ Len(Result) < Len(lib.playlists[op.arg].tracks)

\* C33 as stated: the name is the file name without its extension; with a
\* separator " - " it is split at the first one into A and B, and the result is
\* Unknown Artist / B when A trimmed is all digits and A / B otherwise; without
\* a separator it is Unknown Artist / the whole name
C33_Name == splitext(op.arg)
C33_First(i) == SepAt(C33_Name, i) /\ \A j \in 1..(i - 1) : ~SepAt(C33_Name, j)
C33_A(i) == SubSeq(C33_Name, 1, i - 1)
C33_B(i) == SubSeq(C33_Name, i + 3, Len(C33_Name))
C33_Trim(x) ==
    IF \A i \in 1..Len(x) : x[i] = " " THEN <<>>
    ELSE SubSeq(x, CHOOSE i \in 1..Len(x) : x[i] # " " /\ \A j \in 1..(i - 1) : x[j] = " ",
                   CHOOSE i \in 1..Len(x) : x[i] # " " /\ \A j \in (i + 1)..Len(x) : x[j] = " ")
C33_Numeric(x) == Len(x) > 0 /\ \A i \in 1..Len(x) : x[i] \in {"0"}
C33_FallbackOriginal ==
    op.name = "extract_track_info_from_filename" =>
        /\ \A i \in 1..Len(C33_Name) : C33_First(i) =>
              IF C33_Numeric(C33_Trim(C33_A(i)))
              THEN Result = [artist |-> UnknownArtist, title |-> C33_B(i)]
              ELSE Result = [artist |-> C33_A(i), title |-> C33_B(i)]
        /\ (\A i \in 1..Len(C33_Name) : ~SepAt(C33_Name, i)) =>
              Result = [artist |-> UnknownArtist, title |-> C33_Name]
\* C33, amended: as above, and the artist and the title of the result are A, B
\* and the whole name with the blanks at both ends removed
C33_Fallback ==
    op.name = "extract_track_info_from_filename" =>
        /\ \A i \in 1..Len(C33_Name) : C33_First(i) =>
              IF C33_Numeric(C33_Trim(C33_A(i)))
              THEN Result = [artist |-> UnknownArtist, title |-> C33_Trim(C33_B(i))]
              ELSE Result = [artist |-> C33_Trim(C33_A(i)), title |-> C33_Trim(C33_B(i))]
        /\ (\A i \in 1..Len(C33_Name) : ~SepAt(C33_Name, i)) =>
              Result = [artist |-> UnknownArtist, title |-> C33_Trim(C33_Name)]
\* "0 -  a": a first part that is a number, a second part that begins with a blank
C33_Witness ==
    /\ op.name = "extract_track_info_from_filename"
    /\ op.arg = <<"0", " ", "-", " ", " ", "a">>
    /\ Result = [artist |-> UnknownArtist, title |-> <<"a">>]

\* C34: once the playlist of two loadable tracks has been started and the user
\* does nothing more, each index of the playlist is the current index again
\* and again
C34_Recurs ==
    \A i \in 0..1 : (self.current_track # None) ~> (self.current_playlist_index = i)

\* C35: when toggle_play_pause has returned and no other thread ran meanwhile,
\* the session is not playing if it was playing at the call, it is playing if
\* it was not and a track was loaded or the music directory holds a file that
\* can be loaded, and the result is the session's is_playing
C35_Loadable == \E f \in disk.music_dir.files : f \in disk.existing /\ LoadAccepted(f)
C35_Toggle ==
    Alone("toggle_play_pause") =>
        /\ pre.is_playing => ~self.is_playing
        /\ (~pre.is_playing /\ (pre.current_track # None \/ C35_Loadable)) =>
              self.is_playing
        /\ Result = (IF self.is_playing THEN True ELSE False)

\* C36: when next_track or previous_track has returned True to the main thread
\* and no loop is inside its end-of-track handling, current_track is the
\* playlist entry at current_playlist_index
C36_LoopQuiet(l) == th[l].pc \in {"dead", "loop_test", "loop_busy", "loop_tick",
                                  "loop_check", "loop_idle"}
C36_Consistent ==
    ((Returned("next_track") \/ Returned("previous_track"))
        /\ Result = True
        /\ \A l \in Loops : C36_LoopQuiet(l)) =>
        /\ InRange(self.playlist, self.current_playlist_index)
        /\ self.current_track = PyIndex(self.playlist, self.current_playlist_index)

\* C37: in a store that started empty, every path of every playlist is a key of
\* the track map and occurs once in that playlist, and every playlist is stored
\* under its own name
C37_Invariants ==
    \A n \in DOMAIN lib.playlists :
        /\ lib.playlists[n].name = n
        /\ \A i \in 1..Len(lib.playlists[n].tracks) :
              /\ lib.playlists[n].tracks[i] \in DOMAIN lib.tracks
              /\ \A j \in 1..Len(lib.playlists[n].tracks) :
                    lib.playlists[n].tracks[j] = lib.playlists[n].tracks[i] => j = i
\* a track that was in both playlists has been removed and each still holds
\* another one
C37_Witness ==
    /\ op.name = "remove_track"
    /\ DOMAIN lib.playlists = Names
    /\ \A n \in Names : /\ Contains(pre.lib.playlists[n].tracks, op.arg)
                         /\ lib.playlists[n].tracks # <<>>
====
